---------------------------- MODULE Spec2Model ----------------------------
(***************************************************************************)
(* Conway's Game of Life on a bounded grid, as run by src/main.rs:         *)
(* CellsPlugin::build inserts the resources, the Startup schedule runs     *)
(* initialize_cells, and every frame the Update schedule runs the chain    *)
(* start_episode -> count_neighbors -> update_cells.                       *)
(*                                                                         *)
(* Units.  Durations are whole ticks of 0.1 s (EPISODE_REFRESH_RATE = 0.2  *)
(* is 2 ticks).  Probabilities and random samples are quarters (SPAWN_RATE *)
(* = 0.5 is 2 quarters; a sample of rng.gen::<f64>() lies in [0,1), that   *)
(* is in 0..3 quarters).                                                   *)
(***************************************************************************)
EXTENDS Integers, Sequences, FiniteSets

VARIABLES
    config,           \* the compile-time constants GRID_WIDTH, GRID_HEIGHT, SPAWN_RATE, EPISODE_REFRESH_RATE
    rng,              \* the samples the generator of initialize_cells yields, in draw order
    pc,               \* the step that runs next: "build", "startup", a system of the chain, or "panicked"
    cells,            \* the spawned entities, in spawn order: (Cell, Position, material colour)
    neighbor_counts,  \* Res NeighborCounts: neighbor_counts[x][y], a u8
    cells_updated,    \* Res CellsUpdated
    timer,            \* Res EpisodeTimer: a repeating Timer
    hist              \* history: frames run, rule applications, frames that fired, total elapsed time,
                      \* and whether a counting pass ran since the last rule application

vars == <<config, rng, pc, cells, neighbor_counts, cells_updated, timer, hist>>

---------------------------------------------------------------------------
(* Bounds of the model *)

MaxSide   == 3    \* a grid is at most MaxSide wide and MaxSide high
MaxCells  == 9    \* and has at most MaxCells cells
MaxFrames == 3    \* frames run after startup
MaxDelta  == 4    \* a frame's Time::delta, in ticks: 0 .. MaxDelta (up to two periods)
MaxBlock  == 4    \* side of the grids the 2x2 block is placed in

(* Program constants, in the units above *)

SPAWN_RATE           == 2
EPISODE_REFRESH_RATE == 2

U8 == 256

RngSamples == {1, 3}

---------------------------------------------------------------------------
(* Configurations *)

Cfg(w, h, rate, period) ==
    [GRID_WIDTH |-> w, GRID_HEIGHT |-> h, SPAWN_RATE |-> rate, EPISODE_REFRESH_RATE |-> period]

\* the shipped values of SPAWN_RATE and EPISODE_REFRESH_RATE, on a small non-empty grid
ValidConfigs ==
    { Cfg(w, h, SPAWN_RATE, EPISODE_REFRESH_RATE) :
        <<w, h>> \in { d \in (1..MaxSide) \X (1..MaxSide) : d[1] * d[2] <= MaxCells } }

\* a configuration honours the invariants of the data model
ConfigOk(c) ==
    /\ c.GRID_WIDTH > 0 /\ c.GRID_HEIGHT > 0
    /\ c.SPAWN_RATE >= 0 /\ c.SPAWN_RATE <= 4
    /\ c.EPISODE_REFRESH_RATE > 0

\* configurations that break one invariant each, and one that breaks none
EditedConfigs ==
    { Cfg(2, 2, SPAWN_RATE, EPISODE_REFRESH_RATE),
      Cfg(0, 2, SPAWN_RATE, EPISODE_REFRESH_RATE),
      Cfg(2, 0, SPAWN_RATE, EPISODE_REFRESH_RATE),
      Cfg(0, 0, SPAWN_RATE, EPISODE_REFRESH_RATE),
      Cfg(2, 2, -1, EPISODE_REFRESH_RATE),
      Cfg(2, 2, 5, EPISODE_REFRESH_RATE),
      Cfg(2, 2, SPAWN_RATE, 0),
      Cfg(2, 2, SPAWN_RATE, -1) }

NumCells(c) == c.GRID_WIDTH * c.GRID_HEIGHT

---------------------------------------------------------------------------
(* Timer (TimerMode::Repeating), as start_episode uses it *)

\* Timer::from_seconds(EPISODE_REFRESH_RATE, TimerMode::Repeating)
NewTimer(period) == [elapsed |-> 0, duration |-> period, times_finished_this_tick |-> 0]

\* the tick of a timer built with TimerMode::Once: it finishes one time, then
\* stays at its duration and never finishes again
TimerTickOnce(t, delta) ==
    LET e == t.elapsed + delta IN
    IF t.elapsed >= t.duration
    THEN [t EXCEPT !.times_finished_this_tick = 0]
    ELSE IF e >= t.duration
         THEN [t EXCEPT !.elapsed = t.duration, !.times_finished_this_tick = 1]
         ELSE [t EXCEPT !.elapsed = e, !.times_finished_this_tick = 0]

\* the tick that leaves the finished count of the tick before when it does not finish
TimerTickStale(t, delta) ==
    LET e == t.elapsed + delta IN
    IF e >= t.duration
    THEN [t EXCEPT !.elapsed = IF t.duration = 0 THEN 0 ELSE e % t.duration,
                   !.times_finished_this_tick = IF t.duration = 0 THEN 1 ELSE e \div t.duration]
    ELSE [t EXCEPT !.elapsed = e]

\* the tick firing only once the duration is passed, not when it is just reached
TimerTickStrict(t, delta) ==
    LET e == t.elapsed + delta IN
    IF e > t.duration
    THEN [t EXCEPT !.elapsed = IF t.duration = 0 THEN 0 ELSE e % t.duration,
                   !.times_finished_this_tick = IF t.duration = 0 THEN 1 ELSE e \div t.duration]
    ELSE [t EXCEPT !.elapsed = e, !.times_finished_this_tick = 0]

\* timer.tick(delta): the stopwatch advances; a repeating timer that reached its
\* duration records how many times it finished and keeps the remainder
\* (checked_div / checked_rem: a zero duration finishes on every tick, and the
\* count saturates; only its being positive is ever read, so 1 stands for it)
TimerTick(t, delta) ==
    LET e == t.elapsed + delta IN
    IF e >= t.duration
    THEN [t EXCEPT !.elapsed = IF t.duration = 0 THEN 0 ELSE e % t.duration,
                   !.times_finished_this_tick = IF t.duration = 0 THEN 1 ELSE e \div t.duration]
    ELSE [t EXCEPT !.elapsed = e, !.times_finished_this_tick = 0]

just_finished(t) == t.times_finished_this_tick > 0

---------------------------------------------------------------------------
(* initialize_cells *)

color_alive == "alive"
color_dead  == "dead"

\* the entity spawned for (x, y) from the sample drawn for it
SpawnCell(x, y, sample, rate) ==
    LET is_alive == sample <= rate IN
    [cell |-> is_alive, pos |-> [x |-> x, y |-> y],
     color |-> IF is_alive THEN color_alive ELSE color_dead]

\* the two loops with the sides swapped: x runs over the height and y over the width
SpawnAllTransposed(c, samples) ==
    [i \in 1..NumCells(c) |->
        SpawnCell((i - 1) \div c.GRID_WIDTH, (i - 1) % c.GRID_WIDTH, samples[i], c.SPAWN_RATE)]

\* for x in 0..GRID_WIDTH { for y in 0..GRID_HEIGHT { spawn } }: x is the outer loop
SpawnAll(c, samples) ==
    [i \in 1..NumCells(c) |->
        SpawnCell((i - 1) \div c.GRID_HEIGHT, (i - 1) % c.GRID_HEIGHT, samples[i], c.SPAWN_RATE)]

---------------------------------------------------------------------------
(* count_neighbors *)

\* vec![vec![0; GRID_HEIGHT]; GRID_WIDTH], also what row.fill(0) leaves
ZeroCounts(c) == [x \in 0..(c.GRID_WIDTH - 1) |-> [y \in 0..(c.GRID_HEIGHT - 1) |-> 0]]

\* the offsets without the diagonals
OffsetsOrthogonal == << <<-1, 0>>, <<0, -1>>, <<0, 1>>, <<1, 0>> >>

\* the offsets without the (0, 0) skip: a cell counts itself
OffsetsWithSelf ==
    << <<-1, -1>>, <<-1, 0>>, <<-1, 1>>, <<0, -1>>, <<0, 0>>, <<0, 1>>, <<1, -1>>, <<1, 0>>, <<1, 1>> >>

\* for dx in -1..=1 { for dy in -1..=1 { if dx == 0 && dy == 0 { continue } .. } }
Offsets == << <<-1, -1>>, <<-1, 0>>, <<-1, 1>>, <<0, -1>>, <<0, 1>>, <<1, -1>>, <<1, 0>>, <<1, 1>> >>

\* nx >= 0 && ny >= 0 && nx < GRID_WIDTH && ny < GRID_HEIGHT
InGrid(c, nx, ny) == nx >= 0 /\ ny >= 0 /\ nx < c.GRID_WIDTH /\ ny < c.GRID_HEIGHT

\* neighbor_counts.0[nx][ny] += 1 on a u8
Increment(counts, nx, ny) == [counts EXCEPT ![nx][ny] = (@ + 1) % U8]

\* the two inner loops for one alive cell: one increment for each offset that
\* lands in the grid (the eight offsets land on eight different entries)
Scatter(c, counts, pos) ==
    [x \in DOMAIN counts |-> [y \in DOMAIN counts[x] |->
        IF \E k \in 1..Len(Offsets) : /\ pos.x + Offsets[k][1] = x
                                       /\ pos.y + Offsets[k][2] = y
                                       /\ InGrid(c, x, y)
        THEN Increment(counts, x, y)[x][y]
        ELSE counts[x][y]]]

\* for (pos, cell) in cells.iter() { if !cell.0 { continue } .. }, from entity i on
RECURSIVE CountLoop(_, _, _, _)
CountLoop(c, counts, ents, i) ==
    IF i > Len(ents) THEN counts
    ELSE CountLoop(c, IF ents[i].cell THEN Scatter(c, counts, ents[i].pos) ELSE counts,
                   ents, i + 1)

\* the system without its reset: the counts of the frames add up
CountPassNoReset(c, counts, ents) == CountLoop(c, counts, ents, 1)

\* the whole system: reset every row, then scatter
CountPass(c, counts, ents) ==
    CountLoop(c, [x \in DOMAIN counts |-> [y \in DOMAIN counts[x] |-> 0]], ents, 1)

---------------------------------------------------------------------------
(* update_cells *)

\* the rule with the arm for 3 guarded as a birth only: a cell with three neighbours dies
RuleBirthOnly(count, alive) == (count = 3 /\ ~alive) \/ (count = 2 /\ alive)

\* the rule with the arm for 3 written as a range up to 3: anything under 4 lives
RuleUpToThree(count, alive) == count <= 3

\* the rule without the guard on the arm for 2: a dead cell with two neighbours is born
RuleNoGuard(count, alive) == count = 3 \/ count = 2

\* match count { 3 => true, 2 if cell.0 => true, _ => false }
Rule(count, alive) ==
    CASE count = 3 -> TRUE
      [] count = 2 /\ alive -> TRUE
      [] OTHER -> FALSE

\* the loop body that recolours a cell that is born and not one that dies
UpdateCellNeverDarkens(e, counts) ==
    LET count     == counts[e.pos.x][e.pos.y]
        was_alive == e.cell
        now       == Rule(count, was_alive)
    IN [e EXCEPT !.cell = now,
                 !.color = IF now # was_alive
                           THEN (IF now THEN color_alive ELSE @)
                           ELSE @]

\* the loop body for one entity
UpdateCell(e, counts) ==
    LET count     == counts[e.pos.x][e.pos.y]
        was_alive == e.cell
        now       == Rule(count, was_alive)
    IN [e EXCEPT !.cell = now,
                 !.color = IF now # was_alive
                           THEN (IF now THEN color_alive ELSE color_dead)
                           ELSE @]

\* for (mut cell, pos, material_handle) in cells.iter_mut() { .. }
UpdatePass(ents, counts) == [i \in 1..Len(ents) |-> UpdateCell(ents[i], counts)]

\* update_cells without its early return
GatedNever(updated) == FALSE

\* update_cells with the test of its early return negated
GatedInverted(updated) == ~updated

\* if cells_updated.0 { return; }
Gated(updated) == updated

---------------------------------------------------------------------------
(* The schedules *)

\* the chain with the two passes in the other order
ChainUpdateFirst == <<"start_episode", "update_cells", "count_neighbors">>

\* add_systems(Update, (start_episode, count_neighbors, update_cells, ..).chain())
Chain == <<"start_episode", "count_neighbors", "update_cells">>

Index(s) == CHOOSE i \in 1..Len(Chain) : Chain[i] = s

\* the system that runs after s; after the last one the frame is over
After(s) == IF Index(s) = Len(Chain) THEN Chain[1] ELSE Chain[Index(s) + 1]

LastOfFrame(s) == Index(s) = Len(Chain)

NoHist == [frames |-> 0, applied |-> 0, fired |-> 0, total |-> 0, periodic |-> TRUE,
           counted |-> FALSE]

\* a frame is over: count it
EndFrame(h, s) == IF LastOfFrame(s) THEN [h EXCEPT !.frames = @ + 1] ELSE h

\* build with a validation of the configuration in front
BuildValidating ==
    /\ pc = "build"
    /\ IF ~ConfigOk(config)
       THEN /\ pc' = "panicked"
            /\ UNCHANGED <<neighbor_counts, cells_updated, timer>>
       ELSE /\ neighbor_counts' = ZeroCounts(config)
            /\ cells_updated' = TRUE
            /\ timer' = NewTimer(config.EPISODE_REFRESH_RATE)
            /\ pc' = "startup"
    /\ UNCHANGED <<config, rng, cells, hist>>

\* build inserting CellsUpdated(false): the gate starts Pending
BuildPending ==
    /\ pc = "build"
    /\ IF config.EPISODE_REFRESH_RATE < 0
       THEN /\ pc' = "panicked"
            /\ UNCHANGED <<neighbor_counts, cells_updated, timer>>
       ELSE /\ neighbor_counts' = ZeroCounts(config)
            /\ cells_updated' = FALSE
            /\ timer' = NewTimer(config.EPISODE_REFRESH_RATE)
            /\ pc' = "startup"
    /\ UNCHANGED <<config, rng, cells, hist>>

\* CellsPlugin::build: the three resources; Timer::from_seconds panics on a
\* negative duration (Duration::from_secs_f32)
Build ==
    /\ pc = "build"
    /\ IF config.EPISODE_REFRESH_RATE < 0
       THEN /\ pc' = "panicked"
            /\ UNCHANGED <<neighbor_counts, cells_updated, timer>>
       ELSE /\ neighbor_counts' = ZeroCounts(config)
            /\ cells_updated' = TRUE
            /\ timer' = NewTimer(config.EPISODE_REFRESH_RATE)
            /\ pc' = "startup"
    /\ UNCHANGED <<config, rng, cells, hist>>

\* Startup: initialize_cells, its spawn commands applied; the generator is a
\* local of the system and is gone when it returns
InitializeCells ==
    /\ pc = "startup"
    /\ cells' = SpawnAll(config, rng)
    /\ rng' = <<>>
    /\ pc' = Chain[1]
    /\ UNCHANGED <<config, neighbor_counts, cells_updated, timer, hist>>

\* start_episode, for a frame whose Time::delta is delta
StartEpisode ==
    /\ pc = "start_episode"
    /\ hist.frames < MaxFrames
    /\ \E delta \in 0..MaxDelta :
         LET t == TimerTick(timer, delta) IN
         /\ timer' = t
         /\ cells_updated' = IF just_finished(t) THEN FALSE ELSE cells_updated
         /\ hist' = EndFrame([hist EXCEPT !.total = @ + delta,
                                          !.fired = IF just_finished(t) THEN @ + 1 ELSE @,
                                          !.periodic = @ /\ delta = timer.duration],
                             "start_episode")
    /\ pc' = After("start_episode")
    /\ UNCHANGED <<config, rng, cells, neighbor_counts>>

\* count_neighbors
CountNeighbors ==
    /\ pc = "count_neighbors"
    /\ neighbor_counts' = CountPass(config, neighbor_counts, cells)
    /\ hist' = EndFrame([hist EXCEPT !.counted = TRUE], "count_neighbors")
    /\ pc' = After("count_neighbors")
    /\ UNCHANGED <<config, rng, cells, cells_updated, timer>>

\* update_cells without its last statement: the gate is never closed again
UpdateCellsNoReset ==
    /\ pc = "update_cells"
    /\ IF Gated(cells_updated)
       THEN /\ UNCHANGED <<cells, cells_updated>>
            /\ hist' = EndFrame(hist, "update_cells")
       ELSE /\ cells' = UpdatePass(cells, neighbor_counts)
            /\ UNCHANGED cells_updated
            /\ hist' = EndFrame([hist EXCEPT !.applied = @ + 1, !.counted = FALSE], "update_cells")
    /\ pc' = After("update_cells")
    /\ UNCHANGED <<config, rng, neighbor_counts, timer>>

\* update_cells
UpdateCells ==
    /\ pc = "update_cells"
    /\ IF Gated(cells_updated)
       THEN /\ UNCHANGED <<cells, cells_updated>>
            /\ hist' = EndFrame(hist, "update_cells")
       ELSE /\ cells' = UpdatePass(cells, neighbor_counts)
            /\ cells_updated' = TRUE
            /\ hist' = EndFrame([hist EXCEPT !.applied = @ + 1, !.counted = FALSE], "update_cells")
    /\ pc' = After("update_cells")
    /\ UNCHANGED <<config, rng, neighbor_counts, timer>>

Next == Build \/ InitializeCells \/ StartEpisode \/ CountNeighbors \/ UpdateCells

\* before build: no resource is inserted and no entity is spawned yet
Unbuilt ==
    /\ pc = "build"
    /\ cells = <<>>
    /\ neighbor_counts = <<>>
    /\ cells_updated = TRUE
    /\ timer = NewTimer(0)
    /\ hist = NoHist

\* every random start on every small grid
Init ==
    /\ config \in ValidConfigs
    /\ rng \in [1..NumCells(config) -> RngSamples]
    /\ Unbuilt

Spec == Init /\ [][Next]_vars

\* the coordinate initialize_cells gives to its i-th spawn
PosOf(c, i) == <<(i - 1) \div c.GRID_HEIGHT, (i - 1) % c.GRID_HEIGHT>>

\* the samples that make exactly the cells of alive start alive
SamplesFor(c, alive) == [i \in 1..NumCells(c) |-> IF PosOf(c, i) \in alive THEN 1 ELSE 3]

Vertical   == {<<2, 1>>, <<2, 2>>, <<2, 3>>}
Horizontal == {<<1, 2>>, <<2, 2>>, <<3, 2>>}

\* a 5x5 grid that starts as the vertical blinker
InitBlinker ==
    /\ config = Cfg(5, 5, SPAWN_RATE, EPISODE_REFRESH_RATE)
    /\ rng = SamplesFor(config, Vertical)
    /\ Unbuilt

SpecBlinker == InitBlinker /\ [][Next]_vars

\* the 2x2 block whose lowest corner is (bx, by)
Block(bx, by) == {<<bx, by>>, <<bx + 1, by>>, <<bx, by + 1>>, <<bx + 1, by + 1>>}

\* a grid that starts as one 2x2 block, anywhere it fits
InitBlock ==
    /\ \E w, h \in 2..MaxBlock : \E bx \in 0..(w - 2) : \E by \in 0..(h - 2) :
         /\ config = Cfg(w, h, SPAWN_RATE, EPISODE_REFRESH_RATE)
         /\ rng = SamplesFor(config, Block(bx, by))
    /\ Unbuilt

SpecBlock == InitBlock /\ [][Next]_vars

\* the constants edited, each random start
InitEdited ==
    /\ config \in EditedConfigs
    /\ rng \in [1..NumCells(config) -> RngSamples]
    /\ Unbuilt

SpecEdited == InitEdited /\ [][Next]_vars

---------------------------------------------------------------------------
(* The order in which a query hands out its entities *)

\* the largest grid, in cells, whose every visiting order is tried
MaxOrderCells == 4

\* every order in which a query over n entities can visit them
Orders(n) == { o \in [1..n -> 1..n] : \A i, j \in 1..n : i # j => o[i] # o[j] }

\* the entities as cell_query.iter() hands them out under one order
Visit(ents, order) == [k \in 1..Len(ents) |-> ents[order[k]]]

\* the body of the loop reading a count recomputed from the cells as they are now
UpdateVisitInPlace(ents, counts, i) ==
    [ents EXCEPT ![i] = UpdateCell(ents[i], CountPass(config, counts, ents))]

\* one turn of the loop of update_cells: entity i reads its count and writes itself
UpdateVisit(ents, counts, i) == [ents EXCEPT ![i] = UpdateCell(ents[i], counts)]

\* the loop of update_cells from its k-th visit on
RECURSIVE UpdateLoop(_, _, _, _)
UpdateLoop(ents, counts, order, k) ==
    IF k > Len(order) THEN ents
    ELSE UpdateLoop(UpdateVisit(ents, counts, order[k]), counts, order, k + 1)

\* count_neighbors with the query visiting in any order
CountNeighborsAny ==
    /\ pc = "count_neighbors"
    /\ \E order \in Orders(Len(cells)) :
         neighbor_counts' = CountPass(config, neighbor_counts, Visit(cells, order))
    /\ hist' = EndFrame([hist EXCEPT !.counted = TRUE], "count_neighbors")
    /\ pc' = After("count_neighbors")
    /\ UNCHANGED <<config, rng, cells, cells_updated, timer>>

\* update_cells with the query visiting in any order
UpdateCellsAny ==
    /\ pc = "update_cells"
    /\ IF Gated(cells_updated)
       THEN /\ UNCHANGED <<cells, cells_updated>>
            /\ hist' = EndFrame(hist, "update_cells")
       ELSE /\ \E order \in Orders(Len(cells)) :
                 cells' = UpdateLoop(cells, neighbor_counts, order, 1)
            /\ cells_updated' = TRUE
            /\ hist' = EndFrame([hist EXCEPT !.applied = @ + 1, !.counted = FALSE], "update_cells")
    /\ pc' = After("update_cells")
    /\ UNCHANGED <<config, rng, neighbor_counts, timer>>

NextOrder == Build \/ InitializeCells \/ StartEpisode \/ CountNeighborsAny \/ UpdateCellsAny

\* every random start on every grid of at most MaxOrderCells cells
InitOrder ==
    /\ config \in { c \in ValidConfigs : NumCells(c) <= MaxOrderCells }
    /\ rng \in [1..NumCells(config) -> RngSamples]
    /\ Unbuilt

SpecOrder == InitOrder /\ [][NextOrder]_vars

---------------------------------------------------------------------------
(* Frames that never stop *)

\* start_episode in a frame whose delta is positive; the history of the
\* bounded runs is not kept, so that the frames can go on for ever
StartEpisodeLive ==
    /\ pc = "start_episode"
    /\ \E delta \in 1..MaxDelta :
         LET t == TimerTick(timer, delta) IN
         /\ timer' = t
         /\ cells_updated' = IF just_finished(t) THEN FALSE ELSE cells_updated
    /\ pc' = After("start_episode")
    /\ UNCHANGED <<config, rng, cells, neighbor_counts, hist>>

\* update_cells, keeping of the history only whether the table is that of the grid
UpdateCellsLive ==
    /\ pc = "update_cells"
    /\ IF Gated(cells_updated)
       THEN UNCHANGED <<cells, cells_updated, hist>>
       ELSE /\ cells' = UpdatePass(cells, neighbor_counts)
            /\ cells_updated' = TRUE
            /\ hist' = [hist EXCEPT !.counted = FALSE]
    /\ pc' = After("update_cells")
    /\ UNCHANGED <<config, rng, neighbor_counts, timer>>

NextLive == Build \/ InitializeCells \/ StartEpisodeLive \/ CountNeighbors \/ UpdateCellsLive

\* the largest grid, in cells, on which the endless runs are checked
MaxLiveCells == 6

\* every random start on every grid of at most MaxLiveCells cells
InitLive ==
    /\ config \in { c \in ValidConfigs : NumCells(c) <= MaxLiveCells }
    /\ rng \in [1..NumCells(config) -> RngSamples]
    /\ Unbuilt

\* the app runs its schedule again and again: a frame that can run does run
SpecLive == InitLive /\ [][NextLive]_vars /\ WF_vars(NextLive)

---------------------------------------------------------------------------
(* What the properties speak of *)

\* startup is over: the entities exist and frames run
Spawned_pcs == {"start_episode", "count_neighbors", "update_cells"}

Spawned == pc \in Spawned_pcs

\* this step is update_cells applying the rule (the gate is Pending)
RuleApplies == pc = "update_cells" /\ ~cells_updated

\* the last frame that ran applied the rule
AppliedLastFrame == pc = "start_episode" /\ hist.frames > 0 /\ just_finished(timer)

\* the in-grid Moore neighbours of (x, y)
Moore(c, x, y) ==
    { n \in ((x - 1)..(x + 1)) \X ((y - 1)..(y + 1)) :
        /\ n # <<x, y>>
        /\ n[1] \in 0..(c.GRID_WIDTH - 1)
        /\ n[2] \in 0..(c.GRID_HEIGHT - 1) }

\* some entity at coordinate n is alive
AliveAt(n) == \E i \in 1..Len(cells) : cells[i].pos.x = n[1] /\ cells[i].pos.y = n[2] /\ cells[i].cell

\* the 8-neighbour gather for (x, y) in the current grid
Gather(x, y) == Cardinality({ n \in Moore(config, x, y) : AliveAt(n) })

\* the count the last counting pass left for entity i
CountOf(i) == neighbor_counts[cells[i].pos.x][cells[i].pos.y]

\* the synchronous Game-of-Life successor of entity i in the current grid
LifeNext(i) ==
    LET n == Gather(cells[i].pos.x, cells[i].pos.y) IN n = 3 \/ (n = 2 /\ cells[i].cell)

---------------------------------------------------------------------------
(* C1: when count_neighbors has completed, every neighbor_counts[x][y] is  *)
(* the number of alive cells among the in-grid Moore neighbours of (x, y); *)
(* off-grid neighbours add nothing and nothing wraps around.               *)
C1_ScatterEqualsGather ==
    pc = "update_cells" =>
        \A x \in 0..(config.GRID_WIDTH - 1) : \A y \in 0..(config.GRID_HEIGHT - 1) :
            neighbor_counts[x][y] = Gather(x, y)

\* a full 3x3 grid counted: 8 in the middle, 5 on an edge, 3 in a corner
C1_Witness ==
    /\ pc = "update_cells"
    /\ config.GRID_WIDTH = 3 /\ config.GRID_HEIGHT = 3
    /\ neighbor_counts[1][1] = 8 /\ neighbor_counts[0][1] = 5 /\ neighbor_counts[2][2] = 3

(* C2: a rule application makes a cell alive if its count is 3, or if its  *)
(* count is 2 and it is alive, and dead in every other case; no cell is    *)
(* exempt.                                                                 *)
C2_RuleTable ==
    [][RuleApplies =>
        /\ Len(cells') = Len(cells)
        /\ \A i \in 1..Len(cells) :
             cells'[i].cell = (CountOf(i) = 3 \/ (CountOf(i) = 2 /\ cells[i].cell))]_vars

\* a frame applied the rule with a birth on 3, a dead cell left dead on 2 and a
\* cell dead on 4 or more
C2_Witness ==
    /\ AppliedLastFrame
    /\ \E i, j, k \in 1..Len(cells) :
         /\ CountOf(i) = 3 /\ cells[i].cell
         /\ CountOf(j) = 2 /\ ~cells[j].cell
         /\ CountOf(k) >= 4 /\ ~cells[k].cell

(* C3: whenever the rule is applied, the counts it reads are those of the  *)
(* grid as it is before the pass flips any cell, and the grid after the    *)
(* pass is the synchronous Game-of-Life successor of the grid before it.   *)
C3_SynchronousStep ==
    [][RuleApplies =>
        /\ \A i \in 1..Len(cells) : CountOf(i) = Gather(cells[i].pos.x, cells[i].pos.y)
        /\ \A i \in 1..Len(cells) : cells'[i].cell = LifeNext(i)
        /\ \A i \in 1..Len(cells) : cells'[i].pos = cells[i].pos
        /\ neighbor_counts' = neighbor_counts]_vars

\* two generations were computed and the second differs from the counts' grid
C3_Witness ==
    /\ AppliedLastFrame
    /\ hist.applied >= 2
    /\ \E i \in 1..Len(cells) : CountOf(i) # Gather(cells[i].pos.x, cells[i].pos.y)

(* C4: the gate lets the rule through once per timer firing.  At every     *)
(* frame boundary the rule was applied as often as the timer fired; any    *)
(* number of frames that together span one timer period (the elapsed time  *)
(* reaches one period and not two) apply the rule exactly once; and M      *)
(* frames of exactly one period each apply it exactly M times.             *)
C4_UpdateGate ==
    pc = "start_episode" =>
        /\ hist.applied = hist.fired
        /\ (/\ hist.total >= timer.duration
            /\ hist.total < 2 * timer.duration) => hist.applied = 1
        /\ hist.periodic => hist.applied = hist.frames

\* three frames within one period, one application
C4_Witness ==
    /\ pc = "start_episode"
    /\ hist.frames = 3
    /\ hist.total >= timer.duration /\ hist.total < 2 * timer.duration
    /\ hist.applied = 1

(* C5: in a frame whose gate is Idle after start_episode, the rest of the  *)
(* pipeline leaves every cell as it is: update_cells returns early, no     *)
(* rule application is made and the gate stays Idle.                       *)
C5_IdleFrameNoOp ==
    [][(pc \in {"count_neighbors", "update_cells"} /\ cells_updated) =>
        /\ cells' = cells
        /\ cells_updated'
        /\ hist'.applied = hist.applied]_vars

\* an Idle frame has run on a grid that the rule would have changed
C5_Witness ==
    /\ pc = "start_episode"
    /\ hist.frames > 0
    /\ ~just_finished(timer)
    /\ \E i \in 1..Len(cells) : Rule(CountOf(i), cells[i].cell) # cells[i].cell

\* no cell is alive
AllDead == \A i \in 1..Len(cells) : ~cells[i].cell

(* C6: a fully dead grid stays fully dead: once startup is over, no step   *)
(* of any frame takes a grid with no alive cell to one with an alive cell. *)
C6_DeadStaysDead == [][(Spawned /\ AllDead) => AllDead']_vars

\* a rule application has acted on a dead grid of four or more cells (every
\* count it read is 0) and left it dead
C6_Witness ==
    /\ AppliedLastFrame
    /\ NumCells(config) >= 4
    /\ \A i \in 1..Len(cells) : CountOf(i) = 0
    /\ AllDead

\* the coordinates of the alive cells
AliveSet == { <<cells[i].pos.x, cells[i].pos.y>> : i \in { j \in 1..Len(cells) : cells[j].cell } }

(* C7: on the 5x5 grid that starts with exactly (2,1), (2,2), (2,3) alive, *)
(* the alive cells are exactly (1,2), (2,2), (3,2) after one rule          *)
(* application and exactly (2,1), (2,2), (2,3) again after two: after an   *)
(* even number of applications the vertical blinker, after an odd number   *)
(* the horizontal one.                                                     *)
C7_Blinker ==
    Spawned => AliveSet = IF hist.applied % 2 = 0 THEN Vertical ELSE Horizontal

\* the second application has brought the vertical blinker back
C7_Witness == AppliedLastFrame /\ hist.applied = 2 /\ AliveSet = Vertical

\* the alive cells are exactly one 2x2 block
IsBlock ==
    \E bx \in 0..(config.GRID_WIDTH - 2) : \E by \in 0..(config.GRID_HEIGHT - 2) :
        AliveSet = Block(bx, by)

(* C8: a 2x2 block on an otherwise dead grid is a still life: every count  *)
(* of a block cell is 3, no dead cell has count 3, and no step of any      *)
(* frame changes which cells are alive.                                    *)
C8_BlockStillLife ==
    [][Spawned =>
        /\ IsBlock
        /\ AliveSet' = AliveSet
        /\ pc = "update_cells" =>
             \A i \in 1..Len(cells) : cells[i].cell <=> CountOf(i) = 3]_vars

\* the block in the middle of a 4x4 grid has been through two rule applications
C8_Witness ==
    /\ AppliedLastFrame /\ hist.applied >= 2
    /\ config.GRID_WIDTH = 4 /\ config.GRID_HEIGHT = 4
    /\ AliveSet = Block(1, 1)

OnBorder(c, x, y) == x = 0 \/ y = 0 \/ x = c.GRID_WIDTH - 1 \/ y = c.GRID_HEIGHT - 1

\* (x, y) is a corner of the grid
IsCorner(c, x, y) == (x = 0 \/ x = c.GRID_WIDTH - 1) /\ (y = 0 \/ y = c.GRID_HEIGHT - 1)

(* C10: in every reachable state each count is at most the number of       *)
(* in-grid Moore neighbours of its cell: at most 8, less than 8 on the     *)
(* border, and on a grid of at least 2x2 at most 5 on an edge and at most  *)
(* 3 in a corner; so no count leaves 0..8 and the u8 never wraps.          *)
C10_CountsBounded ==
    \A x \in DOMAIN neighbor_counts : \A y \in DOMAIN neighbor_counts[x] :
        LET n == neighbor_counts[x][y] IN
        /\ n >= 0 /\ n <= 8
        /\ n <= Cardinality(Moore(config, x, y))
        /\ OnBorder(config, x, y) => n < 8
        /\ (config.GRID_WIDTH >= 2 /\ config.GRID_HEIGHT >= 2) =>
             /\ OnBorder(config, x, y) => n <= 5
             /\ IsCorner(config, x, y) => n <= 3

\* the full 3x3 grid counted in two frames running: the bounds are met and not passed
C10_Witness ==
    /\ pc = "start_episode" /\ hist.frames >= 2 /\ hist.applied = 0
    /\ config.GRID_WIDTH = 3 /\ config.GRID_HEIGHT = 3
    /\ neighbor_counts[1][1] = 8 /\ neighbor_counts[1][0] = 5 /\ neighbor_counts[0][0] = 3

-----------------------------------------------------------------------------
\* C11: counting is idempotent on an unchanged grid. When a counting pass has
\* already run since the last rule application (the alive flags are those the
\* table was computed from), running count_neighbors again leaves every entry
\* of NeighborCounts as it was: the table is zeroed before it is recomputed,
\* so repeated passes never accumulate.
C11_CountIdempotent ==
    [][(pc = "count_neighbors" /\ hist.counted) => neighbor_counts' = neighbor_counts]_vars

\* a second counting pass is about to run on an unchanged grid whose table
\* holds a non-zero count
C11_Witness ==
    /\ pc = "count_neighbors"
    /\ hist.counted
    /\ \E i \in 1..Len(cells) : CountOf(i) > 0

-----------------------------------------------------------------------------
\* C12: the rule application is deterministic and does not depend on the
\* order in which the queries visit the entities: whatever order
\* count_neighbors visits the cells in, it leaves the table the spawn order
\* leaves, and whatever order update_cells visits them in, it leaves the
\* cells the spawn order leaves, so the grid and the counts before a frame
\* fix the grid and the counts after it.
C12_OrderIndependent ==
    [][/\ pc = "count_neighbors" => neighbor_counts' = CountPass(config, neighbor_counts, cells)
       /\ RuleApplies => cells' = UpdatePass(cells, neighbor_counts)]_vars

\* the rule is about to be applied to a grid with more than one visiting order
\* on which an alive cell dies next to an alive cell that survives, so that an
\* earlier write could be seen by a later read
C12_Witness ==
    /\ RuleApplies
    /\ Cardinality(Orders(Len(cells))) > 2
    /\ \E i, j \in 1..Len(cells) :
         /\ i # j
         /\ cells[i].cell /\ ~Rule(CountOf(i), TRUE)
         /\ cells[j].cell /\ Rule(CountOf(j), TRUE)

-----------------------------------------------------------------------------
\* C13: once the cells are spawned there are exactly GRID_WIDTH * GRID_HEIGHT
\* of them, exactly one at every coordinate of the grid and none outside it,
\* and every cell is still at the coordinate it was spawned at: no step of any
\* frame adds, removes or moves a cell.
C13_OneCellPerCoordinate ==
    Spawned =>
        /\ Len(cells) = config.GRID_WIDTH * config.GRID_HEIGHT
        /\ \A x \in 0..(config.GRID_WIDTH - 1), y \in 0..(config.GRID_HEIGHT - 1) :
             Cardinality({ i \in 1..Len(cells) : cells[i].pos = [x |-> x, y |-> y] }) = 1
        /\ \A i \in 1..Len(cells) :
             cells[i].pos = [x |-> PosOf(config, i)[1], y |-> PosOf(config, i)[2]]

\* a grid that is not square, after frames that applied the rule and changed it
C13_Witness ==
    /\ pc = "start_episode"
    /\ hist.frames = MaxFrames
    /\ hist.applied >= 2
    /\ config.GRID_WIDTH # config.GRID_HEIGHT
    /\ \E i, j \in 1..Len(cells) : cells[i].cell /\ ~cells[j].cell

-----------------------------------------------------------------------------
\* C14: the counting pass runs only when the gate is Pending: in a frame
\* whose gate is Idle when count_neighbors is reached (CellsUpdated is true),
\* the step of count_neighbors leaves NeighborCounts unchanged.
\* count_neighbors has no early return and reads no gate: it recounts in
\* every frame, so this fails as soon as an Idle frame meets a table that is
\* not the one of the present grid (the zero table of build, or the table
\* counted before the last rule application).
C14_CountingGated ==
    [][(pc = "count_neighbors" /\ cells_updated) => neighbor_counts' = neighbor_counts]_vars

-----------------------------------------------------------------------------
\* C15: Pending never survives a frame. The gate is closed again by the
\* update_cells of the frame that opened it, so CellsUpdated is true at every
\* frame boundary (start_episode never finds the gate already Pending), and
\* the gate is Pending only between the start_episode of a frame whose timer
\* just finished and the update_cells of that same frame.
C15_PendingWithinFrame ==
    /\ pc = "start_episode" => cells_updated
    /\ ~cells_updated => (pc \in {"count_neighbors", "update_cells"} /\ just_finished(timer))

\* the boundary after two frames that both fired and both applied the rule
C15_Witness ==
    /\ pc = "start_episode"
    /\ cells_updated
    /\ hist.frames = 2 /\ hist.fired = 2 /\ hist.applied = 2
    /\ \E i \in 1..Len(cells) : cells[i].cell

-----------------------------------------------------------------------------
\* the delta of the frame that the step of start_episode begins
FrameDelta == hist'.total - hist.total

\* the timer's accumulated elapsed time once that delta is added
Accumulated == timer.elapsed + FrameDelta

\* C16 as stated: the gate goes from Idle to Pending in a frame exactly when
\* the accumulated elapsed time, the frame's delta added, reaches the period,
\* and the timer then resets its accumulator: it restarts from zero. In a
\* frame whose accumulated time is still below the period the gate is not
\* changed.
C16_ResetsAccumulator ==
    [][pc = "start_episode" =>
         IF Accumulated >= timer.duration
         THEN ~cells_updated' /\ timer'.elapsed = 0
         ELSE cells_updated' = cells_updated /\ timer'.elapsed = Accumulated]_vars

\* C16 amended: the gate goes from Idle to Pending in a frame exactly when
\* the accumulated elapsed time, the frame's delta added, reaches the period;
\* the timer then keeps what exceeds whole periods as its accumulator (the
\* accumulated time modulo the period, zero only for an exact multiple) and
\* goes on accumulating from there. In a frame whose accumulated time is
\* still below the period the gate is not changed and the delta is kept.
C16_GateOpensOnPeriod ==
    [][pc = "start_episode" =>
         IF Accumulated >= timer.duration
         THEN /\ cells_updated /\ ~cells_updated'
              /\ timer'.elapsed = Accumulated % timer.duration
         ELSE /\ cells_updated' = cells_updated
              /\ timer'.elapsed = Accumulated]_vars

\* the first frame ran with a delta of one period and a half: the gate is
\* Pending, the timer finished once and holds the half period in excess
C16_Witness ==
    /\ pc = "count_neighbors"
    /\ hist.frames = 0
    /\ ~cells_updated
    /\ hist.total = timer.duration + 1
    /\ timer.times_finished_this_tick = 1
    /\ timer.elapsed = 1

-----------------------------------------------------------------------------
\* C17: the gate starts Idle and nothing changes before the first period.
\* build leaves CellsUpdated true; as long as the deltas of the frames run so
\* far sum to less than one period, no step changes any cell and the rule has
\* not been applied, so the grid is the one initialize_cells spawned; and the
\* first application of the rule is made in the frame in which the timer
\* fires for the first time.
C17_InitialGridUntilFirstPeriod ==
    [][/\ pc = "build" /\ pc' = "startup" => cells_updated'
       /\ (Spawned /\ hist.total < timer.duration) =>
             /\ cells_updated /\ hist.applied = 0 /\ hist'.applied = 0
             /\ cells' = cells
       /\ (hist.applied = 0 /\ hist'.applied = 1) =>
             (hist.fired = 1 /\ just_finished(timer))]_vars

\* MaxFrames frames have run in less than one period on a grid that the rule
\* would change, and the grid is untouched
C17_Witness ==
    /\ pc = "start_episode"
    /\ hist.frames = MaxFrames
    /\ hist.total > 0 /\ hist.total < timer.duration
    /\ hist.applied = 0
    /\ \E i \in 1..Len(cells) : Rule(CountOf(i), cells[i].cell) # cells[i].cell

-----------------------------------------------------------------------------
\* C18: the rule is applied at most once per frame. In every state the
\* number of applications is at most the number of frames completed and at
\* most the whole number of periods in the total elapsed time; at every frame
\* boundary it is the number of frames in which the timer just finished; and
\* a single frame whose delta covers two periods or more has produced one
\* generation, not two.
C18_AtMostOncePerFrame ==
    Spawned =>
        /\ hist.applied <= hist.frames
        /\ hist.applied <= hist.total \div timer.duration
        /\ pc = "start_episode" => hist.applied = hist.fired
        /\ (pc = "start_episode" /\ hist.frames = 1 /\ hist.total >= 2 * timer.duration)
              => hist.applied = 1

\* one frame whose delta is two periods: the timer finished twice in the tick
\* and the rule was applied once
C18_Witness ==
    /\ pc = "start_episode"
    /\ hist.frames = 1
    /\ hist.total = 2 * timer.duration
    /\ timer.times_finished_this_tick = 2
    /\ hist.applied = 1
    /\ \E i \in 1..Len(cells) : cells[i].cell

-----------------------------------------------------------------------------
\* the timer just finished in this frame and start_episode opened the gate
Fired == pc = "count_neighbors" /\ just_finished(timer) /\ ~cells_updated

\* the frame whose timer just finished is over: the rule was applied after the
\* last counting pass and the gate is closed again
FiredFrameDone ==
    pc = "start_episode" /\ just_finished(timer) /\ cells_updated /\ ~hist.counted

\* C19: when the frames keep running and each has a positive delta, the
\* timer fires again and again, and every firing is followed, at the end of
\* its own frame, by the rule applied and the gate closed: the gate is never
\* stuck Idle (a next firing always comes) nor Pending (it is closed before
\* the next frame starts).
C19_KeepsFiring ==
    /\ []<>Fired
    /\ Fired ~> FiredFrameDone
    /\ [][Fired => (pc' = "update_cells" /\ ~cells_updated')]_vars
    /\ [][(pc = "update_cells" /\ ~cells_updated) => FiredFrameDone']_vars

\* a frame that fired with an excess has ended with the rule applied to a
\* grid that still has alive cells
C19_Witness ==
    /\ FiredFrameDone
    /\ timer.elapsed = 1
    /\ \E i \in 1..Len(cells) : cells[i].cell

-----------------------------------------------------------------------------
\* the colour initialize_cells and update_cells give to a cell with this flag
ColourOf(alive) == IF alive THEN color_alive ELSE color_dead

\* C20: the colour of a cell's material agrees with its alive flag. It is
\* set so at spawn and it agrees after every step, so at every frame
\* boundary; a step changes the colour of exactly the cells whose flag it
\* flips; and a step that does not apply the rule (every step of a frame
\* whose gate is Idle) changes no flag and no colour.
C20_ColourFollowsFlag ==
    [][/\ \A i \in 1..Len(cells') : cells'[i].color = ColourOf(cells'[i].cell)
       /\ Spawned =>
            \A i \in 1..Len(cells) :
                (cells'[i].color # cells[i].color) <=> (cells'[i].cell # cells[i].cell)
       /\ (Spawned /\ ~RuleApplies) => cells' = cells]_vars

\* the rule is about to be applied to a grid where one cell dies, one is born
\* and one stays as it is
C20_Witness ==
    /\ RuleApplies
    /\ \E i, j, k \in 1..Len(cells) :
         /\ cells[i].cell /\ ~Rule(CountOf(i), TRUE)
         /\ ~cells[j].cell /\ Rule(CountOf(j), FALSE)
         /\ Rule(CountOf(k), cells[k].cell) = cells[k].cell

=============================================================================
